---- MODULE Spec2Model ----
(***************************************************************************)
(* Model of src/scrape.py: the prize-feed parser (parse_csv), the detail   *)
(* page merger (parse_detail_page, find_detail_urls,                       *)
(* fetch_detail_for_games), the winner extractor (fetch_winners), the      *)
(* fetcher (fetch) and the pipeline (main).                                *)
(*                                                                         *)
(* Text is a sequence of one-character strings.  A CSV text is the header  *)
(* row (column names) and the data rows csv.reader yields (each a sequence *)
(* of cells).  A detail page is the group-1 text of the first match of     *)
(* each of the five patterns of parse_detail_page, together with the       *)
(* length of the page.                                                     *)
(***************************************************************************)
EXTENDS Integers, Sequences, FiniteSets, TLC

VARIABLES pc, text, games, detail_urls, matched_gns, matched, missing, pat,
          info, hit, game_numbers, wpos, all_w, web, files, fetched, out

vars == <<pc, text, games, detail_urls, matched_gns, matched, missing, pat,
          info, hit, game_numbers, wpos, all_w, web, files, fetched, out>>

\* Python's None; also the value of a variable a specification does not use.
None == "None"

----------------------------------------------------------------------------
(* Characters and numeric coercion *)

AsciiDigits == <<"0", "1", "2", "3", "4", "5", "6", "7", "8", "9">>

\* The regular expression class \d restricted to the model's alphabet.
IsDigit(c) == \E i \in 1..10 : AsciiDigits[i] = c

DigitVal(c) == (CHOOSE i \in 1..10 : AsciiDigits[i] = c) - 1

\* "^2" stands for U+00B2 SUPERSCRIPT TWO: str.isdigit() accepts it, int()
\* raises ValueError on it, and \d does not match it.
Sup2 == "^2"

RECURSIVE ToInt(_)
\* int(s) for a non-empty string of ASCII digits.
ToInt(s) ==
  IF s = <<>> THEN 0
  ELSE ToInt(SubSeq(s, 1, Len(s) - 1)) * 10 + DigitVal(s[Len(s)])

\* int(s) raises ValueError: s is empty or holds a character int() rejects.
IntRaises(s) == s = <<>> \/ \E i \in 1..Len(s) : ~IsDigit(s[i])

\* str.isdigit()
IsDigitStr(s) ==
  s # <<>> /\ \A i \in 1..Len(s) : IsDigit(s[i]) \/ s[i] = Sup2

\* re.sub(r'[^\d]', '', s)
DigitsOnly(s) == SelectSeq(s, IsDigit)

\* int(re.sub(r'[^\d]', '', s) or "0")
CoerceInt(s) == IF DigitsOnly(s) = <<>> THEN 0 ELSE ToInt(DigitsOnly(s))

NotComma(c) == c # ","

\* s.replace(",", "")
DropCommas(s) == SelectSeq(s, NotComma)

RECURSIVE StripChar(_, _)
\* s.strip(c) for a one-character c.
StripChar(s, c) ==
  IF s = <<>> THEN s
  ELSE IF s[1] = c THEN StripChar(Tail(s), c)
  ELSE IF s[Len(s)] = c THEN StripChar(SubSeq(s, 1, Len(s) - 1), c)
  ELSE s

\* s.strip(): the model's only whitespace character is the space.
Strip(s) == StripChar(s, " ")

RECURSIVE ToStr(_)
\* str(n) for n >= 0
ToStr(n) ==
  IF n < 10 THEN <<AsciiDigits[n + 1]>>
  ELSE Append(ToStr(n \div 10), AsciiDigits[(n % 10) + 1])

\* s.upper() on the model's alphabet, whose only cased text is "total".
Upper(s) ==
  [i \in 1..Len(s) |->
     CASE s[i] = "t" -> "T" [] s[i] = "o" -> "O" [] s[i] = "a" -> "A"
       [] s[i] = "l" -> "L" [] OTHER -> s[i]]

RECURSIVE Normal(_)
\* The decimal n / 10^e without trailing fractional zeros, so that equal
\* numbers are equal values.
Normal(d) ==
  IF d.e > 0 /\ d.n % 10 = 0 THEN Normal([n |-> d.n \div 10, e |-> d.e - 1]) ELSE d

\* The number 0, as the int 0 and as the float 0.0 (equal in Python).
FloatZero == [n |-> 0, e |-> 0]

IsDot(c) == c = "."

\* float(s) raises ValueError for a string of digits and periods: it has no
\* digit or more than one period.
FloatRaises(s) == DigitsOnly(s) = <<>> \/ Len(SelectSeq(s, IsDot)) > 1

RECURSIVE FracLen(_)
\* The number of characters after the period of s, 0 without a period.
FracLen(s) ==
  IF s = <<>> \/ ~(\E i \in 1..Len(s) : s[i] = ".") THEN 0
  ELSE IF s[Len(s)] = "." THEN 0
  ELSE 1 + FracLen(SubSeq(s, 1, Len(s) - 1))

\* float(s) for a string of digits and at most one period.
ToFloat(s) == Normal([n |-> ToInt(DigitsOnly(s)), e |-> FracLen(s)])

----------------------------------------------------------------------------
(* parse_csv *)

MinFields == 7

\* dict(zip(header, cells)).get(name, default): zip stops at the shorter
\* sequence and a later duplicate column wins.
Get(header, cells, name, default) ==
  LET n == IF Len(header) < Len(cells) THEN Len(header) ELSE Len(cells)
      ix == {i \in 1..n : header[i] = name}
  IN IF ix = {} THEN default
     ELSE cells[CHOOSE i \in ix : \A j \in ix : j <= i]

\* [c.strip().strip('"') for c in row]
CleanRow(row) == [i \in 1..Len(row) |-> StripChar(Strip(row[i]), "\"")]

\* gn_str of line 52.
GnStr(header, row) == Strip(Get(header, CleanRow(row), "Game Number", <<>>))

\* The row is skipped by `len(row) < 7` or by the game-number test.
RowSkipped(header, row) ==
  Len(row) < MinFields \/ ~IsDigitStr(GnStr(header, row))

\* The record shell of lines 57-64.
Shell(header, row, gn) ==
  LET d == CleanRow(row)
      close_date == Strip(Get(header, d, "Game Close Date", <<>>))
  IN [gn |-> gn,
      nm |-> Get(header, d, "Game Name", <<>>),
      pr |-> CoerceInt(Get(header, d, "Ticket Price", <<"0">>)),
      cs |-> IF close_date # <<>> THEN 1 ELSE 0,
      close_date |-> close_date,
      tot |-> 0, odds |-> FloatZero, pk |-> 0, guar |-> 0, pz |-> <<>>]

\* The prize tiers the row appends (lines 65-75): none or one.
RowTiers(header, row) ==
  LET d == CleanRow(row)
      level == Strip(Get(header, d, "Prize Level", <<>>))
      tp == CoerceInt(DropCommas(Strip(Get(header, d, "Total Prizes in Level", <<"0">>))))
      cl == CoerceInt(DropCommas(Strip(Get(header, d, "Prizes Claimed", <<"0">>))))
      pa == CoerceInt(level)
  IN IF Upper(level) = <<"T", "O", "T", "A", "L">> THEN <<>>
     ELSE IF pa > 0 /\ tp > 0 THEN <<[a |-> pa, p |-> tp, c |-> cl]>>
     ELSE <<>>

\* RowStep with the shell derived again from every admitted row.
RowStepReshell(st, header, row) ==
  LET gn_str == GnStr(header, row)
  IN IF st.raised \/ Len(row) < MinFields \/ ~IsDigitStr(gn_str) THEN st
     ELSE IF IntRaises(gn_str) THEN [st EXCEPT !.raised = TRUE]
     ELSE LET gn == ToInt(gn_str)
              gs == st.g
              old == IF gn \in DOMAIN gs THEN gs[gn].pz ELSE <<>>
              g1 == [Shell(header, row, gn) EXCEPT !.pz = old \o RowTiers(header, row)]
          IN [st EXCEPT !.g = [k \in DOMAIN gs \cup {gn} |->
                                  IF k = gn THEN g1 ELSE gs[k]]]

\* One iteration of the row loop (lines 45-75) on st = [raised, g]: g is the
\* map built so far, raised is set where int(gn_str) raises ValueError.
RowStep(st, header, row) ==
  LET gn_str == GnStr(header, row)
  IN IF st.raised \/ Len(row) < MinFields \/ ~IsDigitStr(gn_str) THEN st
     ELSE IF IntRaises(gn_str) THEN [st EXCEPT !.raised = TRUE]
     ELSE LET gn == ToInt(gn_str)
              gs == st.g
              g0 == IF gn \in DOMAIN gs THEN gs[gn] ELSE Shell(header, row, gn)
              g1 == [g0 EXCEPT !.pz = g0.pz \o RowTiers(header, row)]
          IN [st EXCEPT !.g = [k \in DOMAIN gs \cup {gn} |->
                                  IF k = gn THEN g1 ELSE gs[k]]]

RECURSIVE RowLoop(_, _, _)
RowLoop(st, header, rows) ==
  IF rows = <<>> THEN st
  ELSE RowLoop(RowStep(st, header, rows[1]), header, Tail(rows))

RECURSIVE InsertDescBeforeTies(_, _)
\* InsertDesc with x placed before the tiers of its own amount.
InsertDescBeforeTies(s, x) ==
  IF s = <<>> THEN <<x>>
  ELSE IF s[1].a > x.a THEN <<s[1]>> \o InsertDescBeforeTies(Tail(s), x)
  ELSE <<x>> \o s

RECURSIVE InsertDesc(_, _)
\* x placed after every tier whose amount is at least x.a.
InsertDesc(s, x) ==
  IF s = <<>> THEN <<x>>
  ELSE IF s[1].a >= x.a THEN <<s[1]>> \o InsertDesc(Tail(s), x)
  ELSE <<x>> \o s

RECURSIVE SortDesc(_)
\* list.sort(key=lambda x: -x["a"]): a stable sort, descending by amount.
SortDesc(s) ==
  IF s = <<>> THEN <<>>
  ELSE InsertDesc(SortDesc(SubSeq(s, 1, Len(s) - 1)), s[Len(s)])

\* The empty dict.
EmptyMap == [k \in {} |-> 0]

\* parse_csv(t): [raised, g], g the game map returned, raised where the call
\* ends in ValueError.  t.header is the first line holding "Game Number"
\* (lines 37-48 drop what precedes it), t.rows the rows that follow.
ParseCsv(t) ==
  LET st == RowLoop([raised |-> FALSE, g |-> EmptyMap], t.header, t.rows)
  IN [st EXCEPT !.g = [k \in DOMAIN st.g |->
                          [st.g[k] EXCEPT !.pz = SortDesc(st.g[k].pz)]]]

----------------------------------------------------------------------------
(* fetch *)

Retries == 3

\* fetch(url) where the server's answer r = [fails, body] makes the first
\* r.fails attempts raise and the next one return r.body: the loop of lines
\* 24-31 returns the body within `retries` attempts or falls through to None.
Fetch(r) ==
  IF r.fails >= Retries THEN [none |-> TRUE]
  ELSE [none |-> FALSE, body |-> r.body]

\* The number of urlopen calls fetch makes on the answer r.
Attempts(r) == IF r.fails >= Retries THEN Retries ELSE r.fails + 1

----------------------------------------------------------------------------
(* parse_detail_page *)

NoMatch == [m |-> FALSE, s |-> <<>>]
Match(s) == [m |-> TRUE, s |-> s]

Absent == [has |-> FALSE, v |-> 0]
AbsentFloat == [has |-> FALSE, v |-> FloatZero]

\* parse_detail_page(page) raises ValueError: int() of a tickets or
\* guaranteed-amount match made of commas alone, or float() of an odds match
\* that is no number.
DetailRaises(page) ==
  \/ page.tot.m /\ IntRaises(DropCommas(page.tot.s))
  \/ page.guar.m /\ IntRaises(DropCommas(page.guar.s))
  \/ page.odds.m /\ FloatRaises(page.odds.s)

\* The dict parse_detail_page(page) returns: a key per pattern that matched.
ParseDetailPage(page) ==
  [gn   |-> IF page.gn.m THEN [has |-> TRUE, v |-> ToInt(page.gn.s)] ELSE Absent,
   tot  |-> IF page.tot.m THEN [has |-> TRUE, v |-> ToInt(DropCommas(page.tot.s))] ELSE Absent,
   pk   |-> IF page.pk.m THEN [has |-> TRUE, v |-> ToInt(page.pk.s)] ELSE Absent,
   guar |-> IF page.guar.m THEN [has |-> TRUE, v |-> ToInt(DropCommas(page.guar.s))] ELSE Absent,
   odds |-> IF page.odds.m THEN [has |-> TRUE, v |-> ToFloat(page.odds.s)] ELSE AbsentFloat]

\* The info of a page that was not parsed.
NoInfo == [gn |-> Absent, tot |-> Absent, pk |-> Absent, guar |-> Absent, odds |-> AbsentFloat]

\* info.get(key) is truthy: the key is present and its value is not zero.
TruthyInt(f) == f.has /\ f.v # 0
TruthyFloat(f) == f.has /\ f.v # FloatZero

----------------------------------------------------------------------------
(* find_detail_urls *)

Host == "https://www.texaslottery.com"
Dir == "/export/sites/lottery/Games/Scratch_Offs/"
BASE == <<Host, Dir>>
CSV_URL == BASE \o <<"scratchoff.csv">>
INDEX_URL == BASE \o <<"index.html">>
WINNER_URL(gn) == BASE \o <<"retailerswhosoldtopprizes">> \o ToStr(gn) \o <<".csv">>

\* Lines 113-118: an href is kept, prefixed with the host, or prefixed with BASE.
Absolute(href) ==
  IF href[1] = Host THEN href
  ELSE IF href[1] = Dir THEN <<Host>> \o href
  ELSE BASE \o href

\* The URLs of find_detail_urls(html), html.hrefs being the hrefs its two
\* patterns match: list(set(urls)) keeps each URL once, in no defined order.
FindDetailUrls(html) == {Absolute(html.hrefs[i]) : i \in 1..Len(html.hrefs)}

\* The orders in which a list built from the set S can come.
Orders(S) ==
  {o \in [1..Cardinality(S) -> S] : \A i, j \in 1..Cardinality(S) : i # j => o[i] # o[j]}

----------------------------------------------------------------------------
(* fetch_detail_for_games *)

MinHtmlLen == 200

\* Merge with every key the info holds assigned, zero or not.
MergePresent(g, i) ==
  [g EXCEPT !.tot  = IF i.tot.has THEN i.tot.v ELSE @,
            !.pk   = IF i.pk.has THEN i.pk.v ELSE @,
            !.guar = IF i.guar.has THEN i.guar.v ELSE @,
            !.odds = IF i.odds.has THEN i.odds.v ELSE @]

\* Lines 148-151 and 174-177: a field is assigned where the info's value is truthy.
Merge(g, i) ==
  [g EXCEPT !.tot  = IF TruthyInt(i.tot) THEN i.tot.v ELSE @,
            !.pk   = IF TruthyInt(i.pk) THEN i.pk.v ELSE @,
            !.guar = IF TruthyInt(i.guar) THEN i.guar.v ELSE @,
            !.odds = IF TruthyFloat(i.odds) THEN i.odds.v ELSE @]

\* `if not html` on a fetched value.
NoHtml(h) == h.none \/ h.body.len = 0

\* One iteration of the loop of lines 139-154 on st = [games, matched,
\* matched_gns, raised] with the fetched value h.
IndexStep(st, h) ==
  IF st.raised \/ NoHtml(h) THEN st
  ELSE IF DetailRaises(h.body) THEN [st EXCEPT !.raised = TRUE]
  ELSE LET i == ParseDetailPage(h.body)
       IN IF TruthyInt(i.gn) /\ i.gn.v \in DOMAIN st.games
          THEN [st EXCEPT !.games[i.gn.v] = Merge(@, i),
                          !.matched = @ + 1,
                          !.matched_gns = @ \cup {i.gn.v}]
          ELSE st

\* The page is skipped by line 169.
DirectSkipped(h) == NoHtml(h) \/ h.body.len < MinHtmlLen

\* Line 172 for game gn: the page is taken for the game.
DirectAccepts(i, gn) == (i.gn.has /\ i.gn.v = gn) \/ TruthyInt(i.tot)

\* One iteration of the loop of lines 167-181 for game gn with the fetched
\* value h; brk is set where the loop breaks.
DirectStep(st, gn, h) ==
  IF st.raised \/ DirectSkipped(h) THEN [st |-> st, brk |-> FALSE]
  ELSE IF DetailRaises(h.body) THEN [st |-> [st EXCEPT !.raised = TRUE], brk |-> TRUE]
  ELSE LET i == ParseDetailPage(h.body)
       IN IF DirectAccepts(i, gn)
          THEN [st |-> [st EXCEPT !.games[gn] = Merge(@, i), !.matched = @ + 1],
                brk |-> TRUE]
          ELSE [st |-> st, brk |-> FALSE]

\* Lines 163-166: the two direct URLs of a game.
DirectUrls(gn) ==
  << BASE \o <<"details.html_">> \o ToStr(gn) \o <<".html">>,
     BASE \o <<"details_">> \o ToStr(gn) \o <<".html">> >>

RECURSIVE SortedSeq(_)
\* The keys S in ascending order.
SortedSeq(S) ==
  IF S = {} THEN <<>>
  ELSE LET m == CHOOSE x \in S : \A y \in S : x <= y IN <<m>> \o SortedSeq(S \ {m})

\* Lines 157-158: the games no index page matched that lack tot or pk.  The
\* dict is walked key by key; every iteration touches its own game only.
Missing(gs, mgns) ==
  SortedSeq({gn \in DOMAIN gs : gn \notin mgns /\ (gs[gn].tot = 0 \/ gs[gn].pk = 0)})

\* fetch_detail_for_games as one call against the answers w (a function of
\* the URL), the index URLs coming in the order `order`.  st.fetched lists
\* the URLs fetched.
RECURSIVE IndexLoop(_, _, _)
IndexLoop(st, urls, w) ==
  IF urls = <<>> \/ st.raised THEN st
  ELSE IndexLoop(IndexStep([st EXCEPT !.fetched = Append(@, urls[1])], Fetch(w[urls[1]])),
                 Tail(urls), w)

RECURSIVE PatternLoop(_, _, _, _)
PatternLoop(st, gn, urls, w) ==
  IF urls = <<>> \/ st.raised THEN st
  ELSE LET res == DirectStep([st EXCEPT !.fetched = Append(@, urls[1])], gn, Fetch(w[urls[1]]))
       IN IF res.brk THEN res.st ELSE PatternLoop(res.st, gn, Tail(urls), w)

RECURSIVE DirectLoop(_, _, _)
DirectLoop(st, gns, w) ==
  IF gns = <<>> \/ st.raised THEN st
  ELSE DirectLoop(PatternLoop(st, gns[1], DirectUrls(gns[1]), w), Tail(gns), w)

\* `if index_html:` fails.
NoIndex(h) == h.none \/ h.body.len = 0

FetchDetailForGames(gs, order, w) ==
  LET st0 == [games |-> gs, matched |-> 0, matched_gns |-> {}, raised |-> FALSE,
              fetched |-> <<INDEX_URL>>]
      st1 == IndexLoop(st0, order, w)
  IN DirectLoop(st1, Missing(st1.games, st1.matched_gns), w)

----------------------------------------------------------------------------
(* fetch_winners *)

MinWinnerFields == 5

\* Line 193: no text, or "404" within the first 100 characters, or
\* "not found" within the first 200.  A feed carries the two findings as
\* the flags e404 and nf.
WinnerFeedSkipped(h) == h.none \/ h.body.len = 0 \/ h.body.e404 \/ h.body.nf

\* [c.strip() for c in row]
StripRow(cells) == [i \in 1..Len(cells) |-> Strip(cells[i])]

\* The dict w of lines 206-214 for a row of the feed.
WinnerOf(header, cells) ==
  LET d == StripRow(cells)
  IN [date  |-> Get(header, d, "Date Claimed", <<>>),
      store |-> Get(header, d, "Selling Retailer", <<>>),
      addr  |-> Get(header, d, "Selling Retailer Address", <<>>),
      city  |-> Get(header, d, "Selling Retailer City", <<>>),
      zip   |-> Get(header, d, "Selling Retailer Zip Code", <<>>),
      pn    |-> CoerceInt(Get(header, d, "Pack Number", <<"0">>)),
      tk    |-> CoerceInt(Get(header, d, "Ticket Number", <<"0">>))]

\* Line 215 with `or` for `and`.
AdmittedEither(w) == w.date # <<>> \/ w.store # <<>>

\* Line 215: the entry is kept.
Admitted(w) == w.date # <<>> /\ w.store # <<>>

RECURSIVE WinnerRows(_, _, _)
\* The entries of lines 199-216 from the rows of a feed; a row on which
\* csv.reader raises (err) ends the loop with the entries gathered so far.
WinnerRows(header, rows, entries) ==
  IF rows = <<>> \/ rows[1].err THEN entries
  ELSE IF Len(rows[1].cells) < MinWinnerFields
       THEN WinnerRows(header, Tail(rows), entries)
  ELSE LET w == WinnerOf(header, rows[1].cells)
       IN WinnerRows(header, Tail(rows),
                     IF Admitted(w) THEN Append(entries, w) ELSE entries)

\* The entries of a fetched feed that is not skipped.
WinnerEntries(h) == WinnerRows(h.body.header, h.body.rows, <<>>)

\* One iteration of the loop of lines 189-221 for game gn with the fetched
\* value h.
WinnerStep(aw, gn, h) ==
  IF WinnerFeedSkipped(h) \/ WinnerEntries(h) = <<>> THEN aw
  ELSE [k \in DOMAIN aw \cup {ToStr(gn)} |->
          IF k = ToStr(gn) THEN WinnerEntries(h) ELSE aw[k]]

RECURSIVE WinnerLoop(_, _, _)
\* fetch_winners as one call against the answers w.
WinnerLoop(aw, gns, w) ==
  IF gns = <<>> THEN aw
  ELSE WinnerLoop(WinnerStep(aw, gns[1], Fetch(w[WINNER_URL(gns[1])])), Tail(gns), w)

FetchWinners(gns, w) == WinnerLoop(EmptyMap, gns, w)

----------------------------------------------------------------------------
(* main *)

\* `if csv_text:` fails: no text, or the empty text.
NoCsvText(h) == h.none \/ h.body.header = <<>>

\* Line 238 never taken.
NoGamesNever(gs) == FALSE

\* Line 238: `if not games`.
NoGames(gs) == DOMAIN gs = {}

\* Line 254 with the last tier of the list for the first.
WithClaimsLast(gs) ==
  SortedSeq({gn \in DOMAIN gs : gs[gn].pz # <<>> /\ gs[gn].pz[Len(gs[gn].pz)].c > 0})

\* Line 254: the games whose first tier has claimed prizes.
WithClaims(gs) ==
  SortedSeq({gn \in DOMAIN gs : gs[gn].pz # <<>> /\ gs[gn].pz[1].c > 0})

RECURSIVE SumLen(_, _)
\* sum(len(v) for v in winners.values()) over the keys ks.
SumLen(aw, ks) ==
  IF ks = {} THEN 0
  ELSE LET k == CHOOSE x \in ks : TRUE IN Len(aw[k]) + SumLen(aw, ks \ {k})

\* The document of lines 260-266 without its timestamp.
Output(gs, aw) ==
  [game_count |-> Cardinality(DOMAIN gs), games |-> gs, winners |-> aw,
   winner_count |-> SumLen(aw, DOMAIN aw)]

----------------------------------------------------------------------------
(* Prize feeds the checks draw from *)

MaxRows == 3

Header7 ==
  <<"Game Number", "Game Name", "Game Close Date", "Ticket Price",
    "Prize Level", "Total Prizes in Level", "Prizes Claimed">>

\* A feed that carries one more column than the seven the parser names.
Header8 == Header7 \o <<"Notes">>

G101 == <<"1", "0", "1">>
G102 == <<"1", "0", "2">>

ShellA == [nm |-> <<"A">>, close |-> <<>>, price |-> <<"$", "5">>]
ShellB == [nm |-> <<"B">>, close |-> <<"D">>, price |-> <<>>]
ShellCells == {ShellA, ShellB}

Tier9 == [level |-> <<"$", "9">>, total |-> <<"3">>, claimed |-> <<"0">>]
Tier5 == [level |-> <<"$", "5">>, total |-> <<"3">>, claimed |-> <<"2">>]
Tier5b == [level |-> <<"$", "5">>, total |-> <<"1", ",", "0">>, claimed |-> <<"0">>]
TierCells == {Tier9, Tier5, Tier5b}

MkRow(gn, sh, t) ==
  <<gn, sh.nm, sh.close, sh.price, t.level, t.total, t.claimed>>

\* Rows of seven fields: game 101 under both shells and every tier amount,
\* game 102 under both shells.
FullRows ==
  { MkRow(G101, ShellA, Tier9), MkRow(G101, ShellB, Tier5), MkRow(G101, ShellA, Tier5b),
    MkRow(G101, ShellB, Tier9), MkRow(G102, ShellA, Tier5), MkRow(G102, ShellB, Tier5) }

\* A row of six fields: the last column is missing.
ShortRows ==
  { <<G101, <<"B">>, <<"D">>, <<>>, <<"$", "9">>, <<"3">>>> }

OddRows ==
  { <<<<"1", "x">>, <<"A">>, <<>>, <<"$", "5">>, <<"$", "9">>, <<"3">>, <<"1">>>>,
    <<G101, <<"A">>, <<>>, <<"$", "5">>, <<" ", "t", "o", "t", "a", "l">>, <<"7">>, <<"1">>>>,
    <<G102, <<"B">>, <<>>, <<"$", "5">>, <<"$", "9">>, <<"0">>, <<"1">>>>,
    <<<<" ", "1", "0", "1">>, <<"B">>, <<"D">>, <<"$", "5">>, <<"$", "9">>, <<"3">>, <<"2">>, <<"n">>>>,
    <<<<Sup2>>, <<"A">>, <<>>, <<"$", "5">>, <<"$", "9">>, <<"3">>, <<"1">>>> }

CsvRows == FullRows \cup ShortRows \cup OddRows

SeqsUpTo(S, n) == UNION {[1..k -> S] : k \in 0..n}

CsvTexts == {[header |-> h, rows |-> r] : h \in {Header7, Header8}, r \in SeqsUpTo(CsvRows, MaxRows)}

----------------------------------------------------------------------------
(* Specification of parse_csv: the text is drawn, the call is one step *)

Idle ==
  /\ detail_urls = None /\ matched_gns = None /\ matched = None
  /\ missing = None /\ pat = None /\ info = None /\ hit = None
  /\ game_numbers = None /\ wpos = None /\ all_w = None /\ web = None
  /\ files = None /\ fetched = None /\ out = None

InitCsv ==
  /\ pc = "start"
  /\ text \in CsvTexts
  /\ games = EmptyMap
  /\ Idle

ParseCsvReturn ==
  /\ pc = "start"
  /\ LET r == ParseCsv(text)
     IN ~r.raised /\ games' = r.g
  /\ pc' = "done"
  /\ UNCHANGED <<text, detail_urls, matched_gns, matched, missing, pat, info,
                 hit, game_numbers, wpos, all_w, web, files, fetched, out>>

ParseCsvRaise ==
  /\ pc = "start"
  /\ ParseCsv(text).raised
  /\ pc' = "raised"
  /\ UNCHANGED <<text, games, detail_urls, matched_gns, matched, missing, pat,
                 info, hit, game_numbers, wpos, all_w, web, files, fetched, out>>

NextCsv == ParseCsvReturn \/ ParseCsvRaise

SpecCsv == InitCsv /\ [][NextCsv]_vars

----------------------------------------------------------------------------
(* Specification of fetch_detail_for_games: one step per fetched page, every
   answer of the server drawn at the fetch *)

MaxHrefs == 2

GnMatches == {NoMatch, Match(G101), Match(<<"9", "9", "9">>)}
TotMatches == {NoMatch, Match(<<"0">>), Match(<<"7">>), Match(<<"1", ",", "2">>)}
PkMatches == {NoMatch, Match(<<"5">>)}
GuarMatches == {NoMatch, Match(<<"3">>)}
OddsMatches == {NoMatch, Match(<<"4", ".", "5">>)}

EmptyPage ==
  [len |-> 0, gn |-> NoMatch, tot |-> NoMatch, pk |-> NoMatch, guar |-> NoMatch,
   odds |-> NoMatch]

\* Pages of 250 characters: every combination of the matches above.
LongPages ==
  {[len |-> 250, gn |-> g, tot |-> t, pk |-> k, guar |-> u, odds |-> o] :
     g \in GnMatches, t \in TotMatches, k \in PkMatches, u \in GuarMatches,
     o \in OddsMatches}

\* Pages whose pack size, guaranteed amount or odds read zero.
ZeroPages ==
  {[len |-> 250, gn |-> Match(G101), tot |-> NoMatch, pk |-> Match(<<"0">>),
    guar |-> Match(<<"0", ",", "0">>), odds |-> Match(<<"0", ".", "0">>)]}

\* Pages on which int() or float() raises.
RaisingPages ==
  {[EmptyPage EXCEPT !.len = 250, !.gn = Match(G101), !.tot = Match(<<",">>)],
   [EmptyPage EXCEPT !.len = 250, !.guar = Match(<<",">>)],
   [EmptyPage EXCEPT !.len = 250, !.gn = Match(G102), !.odds = Match(<<"4", ".", "5", ".">>)]}

\* Pages shorter than 200 characters.
ShortPages ==
  {[EmptyPage EXCEPT !.len = 150, !.gn = g, !.tot = t] :
     g \in {Match(G101), Match(<<"9", "9", "9">>)}, t \in {NoMatch, Match(<<"7">>)}}

Pages == LongPages \cup ZeroPages \cup RaisingPages \cup ShortPages \cup {EmptyPage}

\* Answers of the server: a body at the first attempt, a body at the last
\* attempt, or no body within the attempts fetch makes.
AnswersWith(bodies, late) ==
  {[fails |-> 0, body |-> b] : b \in bodies}
    \cup {[fails |-> f, body |-> late] : f \in {Retries - 1, Retries}}

PageAnswers == AnswersWith(Pages, [EmptyPage EXCEPT !.len = 250, !.gn = Match(G101), !.pk = Match(<<"5">>)])

\* The hrefs an index page can hold: relative, absolute and host-relative.
Hrefs ==
  { <<"details.html_">> \o G101 \o <<".html">>,
    BASE \o <<"details.html_">> \o G101 \o <<".html">>,
    <<Dir, "details_">> \o G102 \o <<".html">>,
    <<"details_promo.html">> }

IndexPages == {[len |-> 50 * Len(h), hrefs |-> h] : h \in SeqsUpTo(Hrefs, MaxHrefs)}

IndexAnswers ==
  AnswersWith(IndexPages, [len |-> 50, hrefs |-> <<<<"details_promo.html">>>>])

\* Game maps as parse_csv returns them: one game, two games.
DetailBases ==
  { ParseCsv([header |-> Header7, rows |-> r]).g :
      r \in { <<MkRow(G101, ShellA, Tier5)>>,
              <<MkRow(G101, ShellA, Tier5), MkRow(G102, ShellB, Tier9)>> } }

DetailIdle ==
  /\ text = None /\ game_numbers = None /\ wpos = None /\ all_w = None
  /\ web = None /\ files = None /\ fetched = None /\ out = None

InitDetail ==
  /\ pc = "index"
  /\ games \in DetailBases
  /\ detail_urls = <<>>
  /\ matched_gns = {}
  /\ matched = 0
  /\ missing = <<>>
  /\ pat = 1
  /\ info = NoInfo
  /\ hit = 0
  /\ DetailIdle

DetailRest == <<text, game_numbers, wpos, all_w, web, files, fetched, out>>

\* Lines 129-136.
FetchIndex ==
  /\ pc = "index"
  /\ \E r \in IndexAnswers :
       IF NoHtml(Fetch(r)) THEN detail_urls' = <<>>
       ELSE detail_urls' \in Orders(FindDetailUrls(Fetch(r).body))
  /\ pc' = "loop"
  /\ UNCHANGED <<games, matched_gns, matched, missing, pat, info, hit>>
  /\ UNCHANGED DetailRest

\* info and hit after a fetched value h took st to nx: the info parsed, and
\* the game merged into (0 for none).
InfoOf(h) ==
  IF NoHtml(h) \/ DetailRaises(h.body) THEN NoInfo ELSE ParseDetailPage(h.body)

\* One iteration of the loop over the index URLs (lines 139-154).
IndexPage ==
  /\ pc = "loop"
  /\ detail_urls # <<>>
  /\ \E r \in PageAnswers :
       LET h == Fetch(r)
           st == [games |-> games, matched |-> matched,
                  matched_gns |-> matched_gns, raised |-> FALSE]
           nx == IndexStep(st, h)
       IN /\ games' = nx.games
          /\ matched' = nx.matched
          /\ matched_gns' = nx.matched_gns
          /\ pc' = IF nx.raised THEN "raised" ELSE "loop"
          /\ info' = InfoOf(h)
          /\ hit' = IF nx.matched > matched THEN InfoOf(h).gn.v ELSE 0
  /\ detail_urls' = Tail(detail_urls)
  /\ UNCHANGED <<missing, pat>>
  /\ UNCHANGED DetailRest

\* Lines 157-159.
ListMissing ==
  /\ pc = "loop"
  /\ detail_urls = <<>>
  /\ missing' = Missing(games, matched_gns)
  /\ pat' = 1
  /\ pc' = "direct"
  /\ UNCHANGED <<games, detail_urls, matched_gns, matched, info, hit>>
  /\ UNCHANGED DetailRest

\* One iteration of the loop over the direct URLs of a game (lines 167-181).
DirectPage ==
  /\ pc = "direct"
  /\ missing # <<>>
  /\ \E r \in PageAnswers :
       LET h == Fetch(r)
           st == [games |-> games, matched |-> matched,
                  matched_gns |-> matched_gns, raised |-> FALSE]
           res == DirectStep(st, Head(missing), h)
       IN /\ games' = res.st.games
          /\ matched' = res.st.matched
          /\ pc' = IF res.st.raised THEN "raised" ELSE "direct"
          /\ info' = IF DirectSkipped(h) THEN NoInfo ELSE InfoOf(h)
          /\ hit' = IF res.st.matched > matched THEN Head(missing) ELSE 0
          /\ IF res.brk \/ pat = Len(DirectUrls(Head(missing)))
             THEN missing' = Tail(missing) /\ pat' = 1
             ELSE missing' = missing /\ pat' = pat + 1
  /\ UNCHANGED <<detail_urls, matched_gns>>
  /\ UNCHANGED DetailRest

\* Line 184.
DetailReturn ==
  /\ pc = "direct"
  /\ missing = <<>>
  /\ pc' = "done"
  /\ UNCHANGED <<games, detail_urls, matched_gns, matched, missing, pat, info, hit>>
  /\ UNCHANGED DetailRest

NextDetail == FetchIndex \/ IndexPage \/ ListMissing \/ DirectPage \/ DetailReturn

SpecDetail == InitDetail /\ [][NextDetail]_vars

----------------------------------------------------------------------------
(* Properties of fetch_detail_for_games *)

\* The four detail fields of a game record, of an info; their zeros.
DetailFields == {"tot", "pk", "guar", "odds"}
ZeroOf(f) == IF f = "odds" THEN FloatZero ELSE 0

\* C1: in every step of fetch_detail_for_games and for every game, a detail
\* field that is non-zero stays non-zero; a page whose value for the field
\* is absent or zero leaves the field as it was; and a page merged into the
\* game with a non-zero value sets the field to that value.  (info' and hit'
\* are the info of the page the step processed and the game it was merged
\* into.)
DetailMergeMonotone ==
  [][ /\ DOMAIN games' = DOMAIN games
      /\ \A gn \in DOMAIN games : \A f \in DetailFields :
           /\ games[gn][f] # ZeroOf(f) => games'[gn][f] # ZeroOf(f)
           /\ (~info'[f].has \/ info'[f].v = ZeroOf(f)) => games'[gn][f] = games[gn][f]
           /\ (hit' = gn /\ info'[f].has /\ info'[f].v # ZeroOf(f))
                => games'[gn][f] = info'[f].v
    ]_vars

\* A page matched to game 101 that reads zero tickets and no pack size was
\* processed while both fields of the game were known, and another field of
\* the game was set from 0 by an earlier page.
DetailMergeMonotoneWitness ==
  /\ pc \in {"loop", "direct"}
  /\ hit = 101
  /\ info.tot.has /\ info.tot.v = 0 /\ ~info.pk.has
  /\ games[101].tot # 0 /\ games[101].pk # 0

\* C2: a processed page whose game number is not a key of the game map adds
\* no key and changes no field of any record.
UnmatchedPageIgnored ==
  [][ (info'.gn.has /\ info'.gn.v \notin DOMAIN games) => games' = games ]_vars

----------------------------------------------------------------------------
(* Specification of fetch_winners: one step per requested game, every answer
   of the server drawn at the fetch *)

MaxWinnerRows == 2

WHeader ==
  <<"Date Claimed", "Selling Retailer", "Selling Retailer Address",
    "Selling Retailer City", "Selling Retailer Zip Code", "Pack Number",
    "Ticket Number">>

\* A feed whose date column goes by another name.
WHeaderRenamed == <<"Claim Date">> \o Tail(WHeader)

WRow(date, store, pn) ==
  [err |-> FALSE, cells |-> <<date, store, <<"a">>, <<"c">>, <<"7">>, pn, <<"2">>>>]

WinnerRowPool ==
  { WRow(<<"d">>, <<"s">>, <<"1">>),
    WRow(<<" ", "e">>, <<"t">>, <<"n", "3">>),
    WRow(<<" ">>, <<"s">>, <<"1">>),
    WRow(<<"d">>, <<>>, <<"1">>),
    [err |-> FALSE, cells |-> <<<<"d">>, <<"s">>, <<"a">>, <<"c">>>>],
    [err |-> FALSE, cells |-> <<<<"d">>, <<"u">>, <<"a">>, <<"c">>, <<"7">>>>],
    [err |-> TRUE, cells |-> <<>>] }

\* Feeds: CSV bodies, a body under the renamed header, bodies that read as
\* an error page, the empty body.
WinnerFeeds ==
  {[len |-> 300, e404 |-> FALSE, nf |-> FALSE, header |-> WHeader, rows |-> r] :
     r \in SeqsUpTo(WinnerRowPool, MaxWinnerRows)}
    \cup
  {[len |-> 300, e404 |-> FALSE, nf |-> FALSE, header |-> WHeaderRenamed,
    rows |-> <<WRow(<<"d">>, <<"s">>, <<"1">>)>>]}
    \cup
  {[len |-> l, e404 |-> e, nf |-> n, header |-> WHeader,
    rows |-> <<WRow(<<"d">>, <<"s">>, <<"1">>)>>] :
     l \in {0, 300}, e \in BOOLEAN, n \in BOOLEAN}

WinnerAnswers ==
  AnswersWith(WinnerFeeds,
              [len |-> 300, e404 |-> FALSE, nf |-> FALSE, header |-> WHeader,
               rows |-> <<WRow(<<"d">>, <<"s">>, <<"1">>)>>])

\* The lists of games a caller asks for: distinct keys of a game map.
Requests == UNION {Orders(S) : S \in SUBSET {7, 101}}

InitWinners ==
  /\ pc = "winners"
  /\ game_numbers \in Requests
  /\ wpos = 0
  /\ all_w = EmptyMap
  /\ text = [none |-> TRUE]
  /\ games = None /\ detail_urls = None /\ matched_gns = None /\ matched = None
  /\ missing = None /\ pat = None /\ info = None /\ hit = None
  /\ web = None /\ files = None /\ fetched = None /\ out = None

WinnersRest ==
  <<games, detail_urls, matched_gns, matched, missing, pat, info, hit, web,
    files, fetched, out>>

\* One iteration of the loop of lines 189-221.
WinnerFeed ==
  /\ pc = "winners"
  /\ wpos < Len(game_numbers)
  /\ \E r \in WinnerAnswers :
       /\ text' = Fetch(r)
       /\ all_w' = WinnerStep(all_w, game_numbers[wpos + 1], Fetch(r))
  /\ wpos' = wpos + 1
  /\ UNCHANGED <<pc, game_numbers>>
  /\ UNCHANGED WinnersRest

\* Line 222.
WinnersReturn ==
  /\ pc = "winners"
  /\ wpos = Len(game_numbers)
  /\ pc' = "done"
  /\ UNCHANGED <<text, game_numbers, wpos, all_w>>
  /\ UNCHANGED WinnersRest

NextWinners == WinnerFeed \/ WinnersReturn

SpecWinners == InitWinners /\ [][NextWinners]_vars

\* The rows of a feed body that line 215 admits: rows of five fields or
\* more, read before csv.reader raises, with a date and a store left after
\* stripping.
AdmittedRows(body) ==
  {i \in 1..Len(body.rows) :
     /\ \A j \in 1..i : ~body.rows[j].err
     /\ Len(body.rows[i].cells) >= MinWinnerFields
     /\ Strip(Get(body.header, body.rows[i].cells, "Date Claimed", <<>>)) # <<>>
     /\ Strip(Get(body.header, body.rows[i].cells, "Selling Retailer", <<>>)) # <<>>}

\* C6: every entry of the map fetch_winners builds has a non-empty date and
\* a non-empty store, every key maps to a non-empty list and is the string
\* form of a requested game number, and a game whose feed was missing, read
\* as an error page or gave no admitted row has no key.  (text is the value
\* fetched for the game processed last.)
WinnersWellFormed ==
  /\ \A k \in DOMAIN all_w :
       /\ all_w[k] # <<>>
       /\ \A i \in 1..Len(all_w[k]) :
            all_w[k][i].date # <<>> /\ all_w[k][i].store # <<>>
       /\ \E i \in 1..wpos : k = ToStr(game_numbers[i])
  /\ (wpos > 0 /\ (text.none \/ text.body.e404 \/ text.body.nf
                     \/ text.body.len = 0 \/ AdmittedRows(text.body) = {}))
       => ToStr(game_numbers[wpos]) \notin DOMAIN all_w

\* The second game's feed was stored with one row kept and one row dropped
\* for its blank date, and the first game's feed left no key.
WinnersWellFormedWitness ==
  /\ wpos = 2
  /\ DOMAIN all_w = {ToStr(game_numbers[2])}
  /\ Len(all_w[ToStr(game_numbers[2])]) = 1
  /\ Len(text.body.rows) = 2
  /\ \E i \in 1..2 : ~text.body.rows[i].err /\ Strip(text.body.rows[i].cells[1]) = <<>>

----------------------------------------------------------------------------
(* Specification of main: the answers of the server are fixed per URL for
   the run; each of the four stages of main is one step *)

\* Prize feeds: the empty text, feeds without an admitted row, feeds of one
\* and two games, a feed on which parse_csv raises.
MainTexts ==
  { [header |-> <<>>, rows |-> <<>>],
    [header |-> Header7, rows |-> <<>>],
    [header |-> Header7, rows |-> <<<<G101, <<"B">>, <<"D">>, <<>>, <<"$", "9">>, <<"3">>>>>>],
    [header |-> Header7, rows |-> <<MkRow(G101, ShellA, Tier5)>>],
    [header |-> Header7, rows |-> <<MkRow(G101, ShellA, Tier5), MkRow(G102, ShellB, Tier5),
                                    MkRow(G101, ShellB, Tier9)>>],
    [header |-> Header7, rows |-> <<MkRow(G101, ShellA, Tier9), MkRow(G101, ShellA, Tier5)>>],
    [header |-> Header7, rows |-> <<MkRow(G101, ShellA, Tier5b), MkRow(G101, ShellA, Tier5)>>],
    [header |-> Header7, rows |-> <<MkRow(G101, ShellA, Tier5), MkRow(G101, ShellA, Tier5b)>>],
    [header |-> Header7, rows |-> <<MkRow(G102, ShellB, [Tier9 EXCEPT !.total = <<"0">>])>>],
    [header |-> Header7, rows |-> <<MkRow(<<Sup2>>, ShellA, Tier5)>>] }

NoAnswer(body) == [fails |-> Retries, body |-> body]
Answer(body) == [fails |-> 0, body |-> body]

CsvAnswers == {NoAnswer([header |-> <<>>, rows |-> <<>>])} \cup {Answer(t) : t \in MainTexts}

Page(gn, tot, pk, odds) ==
  [len |-> 250, gn |-> gn, tot |-> tot, pk |-> pk, guar |-> NoMatch, odds |-> odds]

\* The two URLs the index page links to: the first direct URL of game 101
\* and a page of another name.
Url1 == DirectUrls(101)[1]
Url2 == BASE \o <<"details_promo.html">>

MainIndexAnswers ==
  { NoAnswer([len |-> 0, hrefs |-> <<>>]),
    Answer([len |-> 100, hrefs |-> << <<"details.html_">> \o G101 \o <<".html">> >>]),
    Answer([len |-> 100, hrefs |-> << <<"details.html_">> \o G101 \o <<".html">>,
                                      <<"details_promo.html">> >>]) }

Url1Answers ==
  { NoAnswer(EmptyPage),
    Answer(Page(Match(G101), Match(<<"7">>), Match(<<"5">>), NoMatch)),
    Answer(Page(Match(G101), Match(<<"1", ",", "2">>), NoMatch, NoMatch)),
    Answer(Page(Match(G101), Match(<<",">>), NoMatch, NoMatch)) }

Url2Answers ==
  { NoAnswer(EmptyPage),
    Answer(Page(Match(G101), Match(<<"1", ",", "2">>), NoMatch, Match(<<"4", ".", "5">>))),
    Answer(Page(Match(<<"9", "9", "9">>), Match(<<"7">>), NoMatch, NoMatch)) }

DirectAnswers ==
  { NoAnswer(EmptyPage),
    Answer(Page(NoMatch, Match(<<"7">>), NoMatch, Match(<<"4", ".", "5", ".">>))) }

WFeed(rows) == [len |-> 300, e404 |-> FALSE, nf |-> FALSE, header |-> WHeader, rows |-> rows]

Winner101Answers ==
  { NoAnswer(WFeed(<<>>)),
    Answer(WFeed(<<WRow(<<"d">>, <<"s">>, <<"1">>), WRow(<<" ">>, <<"s">>, <<"1">>)>>)),
    Answer([WFeed(<<WRow(<<"d">>, <<"s">>, <<"1">>)>>) EXCEPT !.e404 = TRUE]) }

Winner102Answers ==
  { NoAnswer(WFeed(<<>>)),
    Answer(WFeed(<<WRow(<<"d">>, <<"t">>, <<"1">>)>>)) }

\* The answers of the server, one per URL the run can fetch.
Webs ==
  { (CSV_URL :> c) @@ (INDEX_URL :> i) @@ (Url1 :> a) @@ (Url2 :> b)
      @@ (DirectUrls(101)[2] :> d) @@ (DirectUrls(102)[1] :> e)
      @@ (DirectUrls(102)[2] :> NoAnswer(EmptyPage))
      @@ (WINNER_URL(101) :> x) @@ (WINNER_URL(102) :> y) :
      c \in CsvAnswers, i \in MainIndexAnswers, a \in Url1Answers, b \in Url2Answers,
      d \in DirectAnswers, e \in DirectAnswers, x \in Winner101Answers,
      y \in Winner102Answers }

InitMain ==
  /\ pc = "start"
  /\ web \in Webs
  /\ text = [none |-> TRUE]
  /\ games = EmptyMap
  /\ detail_urls = <<>>
  /\ matched = 0
  /\ game_numbers = <<>>
  /\ all_w = EmptyMap
  /\ files = {}
  /\ fetched = <<>>
  /\ out = [game_count |-> 0, games |-> EmptyMap, winners |-> EmptyMap, winner_count |-> 0]
  /\ matched_gns = None /\ missing = None /\ pat = None /\ info = None
  /\ hit = None /\ wpos = None

MainRest == <<web, matched_gns, missing, pat, info, hit, wpos>>

\* Lines 229-240: the prize feed is fetched, parsed and kept as data/raw.csv;
\* main returns without games.
MainCsv ==
  /\ pc = "start"
  /\ text' = Fetch(web[CSV_URL])
  /\ fetched' = Append(fetched, CSV_URL)
  /\ IF NoCsvText(text')
     THEN games' = EmptyMap /\ files' = files /\ pc' = "exit"
     ELSE IF ParseCsv(text'.body).raised
     THEN games' = EmptyMap /\ files' = files /\ pc' = "raised"
     ELSE /\ games' = ParseCsv(text'.body).g
          /\ files' = files \cup {"data/raw.csv"}
          /\ pc' = IF NoGames(games') THEN "exit" ELSE "detail"
  /\ UNCHANGED <<detail_urls, matched, game_numbers, all_w, out>>
  /\ UNCHANGED MainRest

\* Lines 242-251: the call of fetch_detail_for_games.
MainDetail ==
  /\ pc = "detail"
  /\ LET h == Fetch(web[INDEX_URL])
     IN detail_urls' \in (IF NoIndex(h) THEN {<<>>} ELSE Orders(FindDetailUrls(h.body)))
  /\ LET st == FetchDetailForGames(games, detail_urls', web)
     IN /\ games' = st.games
        /\ matched' = st.matched
        /\ fetched' = fetched \o st.fetched
        /\ pc' = IF st.raised THEN "raised" ELSE "winners"
  /\ UNCHANGED <<text, game_numbers, all_w, files, out>>
  /\ UNCHANGED MainRest

\* Lines 253-257: the call of fetch_winners for the games with claims.
MainWinners ==
  /\ pc = "winners"
  /\ game_numbers' = WithClaims(games)
  /\ all_w' = FetchWinners(game_numbers', web)
  /\ fetched' = fetched \o [i \in 1..Len(game_numbers') |-> WINNER_URL(game_numbers'[i])]
  /\ pc' = "output"
  /\ UNCHANGED <<text, games, detail_urls, matched, files, out>>
  /\ UNCHANGED MainRest

\* Lines 259-273: both snapshots are written.
MainOutput ==
  /\ pc = "output"
  /\ out' = Output(games, all_w)
  /\ files' = files \cup {"data/feed.json", "data/wdata.json"}
  /\ pc' = "done"
  /\ UNCHANGED <<text, games, detail_urls, matched, game_numbers, all_w, fetched>>
  /\ UNCHANGED MainRest

NextMain == MainCsv \/ MainDetail \/ MainWinners \/ MainOutput

SpecMain == InitMain /\ [][NextMain]_vars

----------------------------------------------------------------------------
(* Properties of parse_csv *)

\* The rows of t the row loop admits.
ValidRows(t) == {i \in 1..Len(t.rows) : ~RowSkipped(t.header, t.rows[i])}

\* The admitted rows of t that carry game number gn.
RowsOf(t, gn) ==
  {i \in ValidRows(t) : ~IntRaises(GnStr(t.header, t.rows[i]))
                          /\ ToInt(GnStr(t.header, t.rows[i])) = gn}

FirstRowOf(t, gn) == CHOOSE i \in RowsOf(t, gn) : \A j \in RowsOf(t, gn) : i <= j

ShellFields(g) == <<g.nm, g.pr, g.cs, g.close_date>>

\* The map after the first k rows of t.
AfterRows(t, k) ==
  RowLoop([raised |-> FALSE, g |-> EmptyMap], t.header, SubSeq(t.rows, 1, k)).g

\* C3: every record parse_csv returns has the name, price, closed flag and
\* close date of the first admitted row carrying its game number, and no
\* later row changes the shell fields of a record that already exists.
ShellFromFirstRow ==
  pc = "done" =>
    /\ \A gn \in DOMAIN games :
         /\ RowsOf(text, gn) # {}
         /\ ShellFields(games[gn]) =
              ShellFields(Shell(text.header, text.rows[FirstRowOf(text, gn)], gn))
    /\ \A k \in 1..Len(text.rows) :
         LET before == AfterRows(text, k - 1)
             after == AfterRows(text, k)
         IN \A gn \in DOMAIN before : ShellFields(after[gn]) = ShellFields(before[gn])

\* A game whose second admitted row carries other shell cells than its first.
ShellFromFirstRowWitness ==
  /\ pc = "done"
  /\ \E gn \in DOMAIN games :
       \E j \in RowsOf(text, gn) :
         /\ j > FirstRowOf(text, gn)
         /\ ShellFields(Shell(text.header, text.rows[j], gn)) # ShellFields(games[gn])

RECURSIVE TiersFrom(_, _, _)
\* The tiers the admitted rows of game gn give, in input order, from row i on.
TiersFrom(t, gn, i) ==
  IF i > Len(t.rows) THEN <<>>
  ELSE (IF /\ ~RowSkipped(t.header, t.rows[i])
           /\ ~IntRaises(GnStr(t.header, t.rows[i]))
           /\ ToInt(GnStr(t.header, t.rows[i])) = gn
        THEN RowTiers(t.header, t.rows[i]) ELSE <<>>)
         \o TiersFrom(t, gn, i + 1)

\* The tiers of s whose amount is a, in the order of s.
WithAmount(s, a) == LET Is(x) == x.a = a IN SelectSeq(s, Is)

\* C4: every prize-tier list parse_csv returns is non-increasing by amount,
\* and the tiers of one amount stand in the order of their input rows.
TiersSortedStable ==
  pc = "done" =>
    \A gn \in DOMAIN games :
      LET pz == games[gn].pz
          input == TiersFrom(text, gn, 1)
      IN /\ \A i \in 1..(Len(pz) - 1) : pz[i].a >= pz[i + 1].a
         /\ Len(pz) = Len(input)
         /\ \A i \in 1..Len(input) :
              WithAmount(pz, input[i].a) = WithAmount(input, input[i].a)

\* A list the sort had to reorder and that holds two distinct tiers of one amount.
TiersSortedStableWitness ==
  /\ pc = "done"
  /\ \E gn \in DOMAIN games :
       /\ games[gn].pz # TiersFrom(text, gn, 1)
       /\ \E i \in 1..(Len(games[gn].pz) - 1) :
            /\ games[gn].pz[i].a = games[gn].pz[i + 1].a
            /\ games[gn].pz[i] # games[gn].pz[i + 1]

\* t without the data rows that have fewer fields than the header row.
WithoutShortRows(t) ==
  LET Full(r) == Len(r) >= Len(t.header) IN [t EXCEPT !.rows = SelectSeq(t.rows, Full)]

\* C5: a data row with fewer fields than the header row creates no record
\* and contributes no tier: the map returned is the map of the text without
\* those rows.
ShortRowsRejected ==
  pc = "done" => games = ParseCsv(WithoutShortRows(text)).g

----------------------------------------------------------------------------
(* Properties of main *)

\* A URL of a winner feed.
IsWinnerUrl(u) == u[3] = "retailerswhosoldtopprizes"

Fetched(u) == \E i \in 1..Len(fetched) : fetched[i] = u

\* The tier of game gn that the prize feed t lists first among those of the
\* highest amount has claimed prizes.
TopClaimed(t, gn) ==
  LET tiers == TiersFrom(t, gn, 1)
  IN \E i \in 1..Len(tiers) :
       /\ \A j \in 1..Len(tiers) : tiers[j].a <= tiers[i].a
       /\ \A j \in 1..(i - 1) : tiers[j].a < tiers[i].a
       /\ tiers[i].c > 0

\* C7: a winner feed is fetched only for a game whose highest-amount tier
\* (the first of them in the feed, where several tiers share the amount) has
\* claimed > 0, and once the winner stage has run it has been fetched for
\* every such game.
WinnerFetchGated ==
  /\ \A i \in 1..Len(fetched) :
       IsWinnerUrl(fetched[i]) =>
         \E gn \in DOMAIN games :
           fetched[i] = WINNER_URL(gn) /\ TopClaimed(text.body, gn)
  /\ pc \in {"output", "done"} =>
       \A gn \in DOMAIN games :
         TopClaimed(text.body, gn) => Fetched(WINNER_URL(gn))

\* The run fetched the winners of game 102 and not those of game 101, whose
\* first row in the feed has claimed prizes and whose top tier has none.
WinnerFetchGatedWitness ==
  /\ pc = "done"
  /\ DOMAIN games = {101, 102}
  /\ Fetched(WINNER_URL(102))
  /\ ~Fetched(WINNER_URL(101))
  /\ RowTiers(text.body.header, text.body.rows[1])[1].c > 0
  /\ games[101].pz[1].c = 0

\* The primary fetch gave no data, or the feed gave no game record.
TotalFailure ==
  /\ pc # "start"
  /\ \/ text.none
     \/ text.body.header = <<>>
     \/ ~ParseCsv(text.body).raised /\ DOMAIN ParseCsv(text.body).g = {}

\* C8 as claimed: on total failure main returns having fetched the prize
\* feed alone and written no file.
TotalFailureWritesNothing ==
  TotalFailure => pc = "exit" /\ fetched = <<CSV_URL>> /\ files = {}

\* C8 as the code has it: on total failure main returns having fetched the
\* prize feed alone and written neither snapshot; data/raw.csv is written
\* exactly when the fetch gave a non-empty text.
TotalFailureWritesNoSnapshot ==
  TotalFailure =>
    /\ pc = "exit"
    /\ fetched = <<CSV_URL>>
    /\ files = IF NoCsvText(text) THEN {} ELSE {"data/raw.csv"}

\* main returned on a fetched feed without records and on a failed fetch.
TotalFailureWitness ==
  /\ pc = "exit"
  /\ ~text.none
  /\ text.body.rows # <<>>
  /\ "data/raw.csv" \in files

\* C9: once the prize feed has given a game record no later answer of the
\* server stops the run: every fetch ends within `retries` attempts, no
\* exception ends the run, and at its end both snapshots are written with
\* game_count the number of records of the prize feed.
PartialFailureCompletes ==
  DOMAIN games # {} =>
    /\ \A i \in 1..Len(fetched) : Attempts(web[fetched[i]]) <= Retries
    /\ pc # "raised"
    /\ pc = "done" =>
         /\ {"data/feed.json", "data/wdata.json"} \subseteq files
         /\ out.game_count = Cardinality(DOMAIN ParseCsv(text.body).g)

\* C10: the games after the detail stage are those of every order in which
\* the URLs of the index page can be processed.
DetailOrderIrrelevant ==
  pc \in {"winners", "output", "done"} =>
    \A o \in (IF NoIndex(Fetch(web[INDEX_URL])) THEN {<<>>}
              ELSE Orders(FindDetailUrls(Fetch(web[INDEX_URL]).body))) :
      FetchDetailForGames(ParseCsv(text.body).g, o, web).games = games

====
